---------------------------- MODULE Spec2Model ----------------------------
(***************************************************************************)
(* A model of the context/device lifecycle layer:                          *)
(*                                                                         *)
(*  - NativeGLContext over EGL (src/platform/with_egl/native_gl_context.rs)*)
(*    with the native EGL API as an external resource whose per-thread     *)
(*    current-context slot the code observes and sets;                     *)
(*  - the universal Hardware/Software dispatcher                           *)
(*    (surfman/src/platform/generic/universal/context.rs).                 *)
(*                                                                         *)
(* Every Rust function is an operator that takes the state it reads and    *)
(* the answers of the native API it cannot predict, and returns the new    *)
(* state, its result and the trace of native calls it made.  Every action  *)
(* is one whole call of one function on one thread.                        *)
(***************************************************************************)
EXTENDS Integers, Sequences, FiniteSets, TLC

VARIABLES
    egl,      \* state of the native EGL API (external to the program)
    objs,     \* the NativeGLContext values that exist, by slot
    last,     \* the last NativeGLContext call: what, on what, result, native calls
    ucontexts, \* universal dispatcher: the Context values
    usurfaces, \* universal dispatcher: the Surface values and who owns each
    ulast,     \* the last dispatcher call: what, operands, result, backend calls
    angle,     \* D3D11/ANGLE bridge: build profile, D3D11 devices made, Devices returned
    alast,     \* the last call of the bridge: what, inputs, result, native calls
    lib        \* GL_LIB: its Once, its value, the loads made, each thread's call

vars == <<egl, objs, last, ucontexts, usurfaces, ulast, angle, alast, lib>>
eglVars == <<egl, objs, last>>
uniVars == <<ucontexts, usurfaces, ulast>>
angleVars == <<angle, alast>>
otherThanEgl == <<uniVars, angleVars, lib>>
otherThanUni == <<eglVars, angleVars, lib>>
otherThanAngle == <<eglVars, uniVars, lib>>
otherThanLib == <<eglVars, uniVars, angleVars>>

----------------------------------------------------------------------------
(* Bounds of the model *)

NumThreads == 2
MaxObj == 2
MaxNew == 2
MaxUCtx == 1
MaxUSurf == 2
MaxD3D == 2
MaxInits == 2

Threads == 1..NumThreads
ObjIds == 1..MaxObj

(* The display handed to new: the callers of new pass the one display they *)
(* got from the native API for the default display.                        *)
Displays == {1}

----------------------------------------------------------------------------
(* Native EGL constants *)

NO_CONTEXT == 0
NO_SURFACE == 0
NO_DISPLAY == 0
EGL_FALSE == 0
(* The client version of the driver workaround in new. *)
RETRY_CLIENT_VERSION == 3

ClientVersions == {2, 3}

----------------------------------------------------------------------------
(* The native EGL API.  Its state: each thread's current-context slot, the  *)
(* number of context handles it has handed out, and how many times each    *)
(* surface and each context was passed to its destroy call.                *)

NoSlot ==
    [context |-> NO_CONTEXT, display |-> NO_DISPLAY,
     draw |-> NO_SURFACE, read |-> NO_SURFACE]

Call(fn, args, ret) == [fn |-> fn, args |-> args, ret |-> ret]

SurfaceLive(E, s) == s \in 1..E.nsurf /\ E.surfDestroys[s] = 0
ContextLive(E, c) == c \in 1..E.nctx /\ E.ctxDestroys[c] = 0

(* eglCreateContext: hands out a fresh context handle, or NO_CONTEXT.  The  *)
(* driver decides (accept); a share context that is no live context is     *)
(* always refused.                                                         *)
egl_CreateContext(E, display, share, version, accept) ==
    LET ok == accept /\ (share = NO_CONTEXT \/ ContextLive(E, share))
        ret == IF ok THEN E.nctx + 1 ELSE NO_CONTEXT
    IN  [egl |-> IF ok THEN [E EXCEPT !.nctx = @ + 1] ELSE E,
         ret |-> ret,
         call |-> Call("CreateContext", <<display, share, version>>, ret)]

(* eglMakeCurrent returns EGL_FALSE on failure and 1 (EGL_TRUE) on         *)
(* success.  On success the calling thread's slot holds exactly the        *)
(* arguments (all null when the context is NO_CONTEXT); on failure the     *)
(* slot is unchanged.  Binding a destroyed context or surface is refused.  *)
egl_MakeCurrent(E, t, display, draw, read, context, accept) ==
    LET valid == \/ context = NO_CONTEXT
                 \/ /\ ContextLive(E, context)
                    /\ SurfaceLive(E, draw)
                    /\ SurfaceLive(E, read)
        ok == accept /\ valid
        slot == IF context = NO_CONTEXT THEN NoSlot
                ELSE [context |-> context, display |-> display,
                      draw |-> draw, read |-> read]
        ret == IF ok THEN 1 ELSE EGL_FALSE
    IN  [egl |-> IF ok THEN [E EXCEPT !.current[t] = slot] ELSE E,
         ret |-> ret,
         call |-> Call("MakeCurrent", <<display, draw, read, context>>, ret)]

egl_GetCurrentContext(E, t) ==
    [ret |-> E.current[t].context,
     call |-> Call("GetCurrentContext", <<>>, E.current[t].context)]

egl_GetCurrentDisplay(E, t) ==
    [ret |-> E.current[t].display,
     call |-> Call("GetCurrentDisplay", <<>>, E.current[t].display)]

egl_GetCurrentSurface(E, t) ==
    [ret |-> E.current[t].draw,
     call |-> Call("GetCurrentSurface", <<>>, E.current[t].draw)]

(* eglDestroySurface / eglDestroyContext: true for a live handle, false    *)
(* for one already destroyed.  A resource that is current on some thread   *)
(* stays in that thread's slot.                                            *)
egl_DestroySurface(E, display, s) ==
    LET ret == IF SurfaceLive(E, s) THEN 1 ELSE EGL_FALSE
    IN  [egl |-> IF s \in 1..MaxNew
                 THEN [E EXCEPT !.surfDestroys[s] = @ + 1] ELSE E,
         ret |-> ret,
         call |-> Call("DestroySurface", <<display, s>>, ret)]

egl_DestroyContext(E, display, c) ==
    LET ret == IF ContextLive(E, c) THEN 1 ELSE EGL_FALSE
    IN  [egl |-> IF c \in 1..MaxNew
                 THEN [E EXCEPT !.ctxDestroys[c] = @ + 1] ELSE E,
         ret |-> ret,
         call |-> Call("DestroyContext", <<display, c>>, ret)]

----------------------------------------------------------------------------
(* NativeGLContext *)

NativeGLContext(display, surface, context, weak, owner) ==
    [native_display |-> display, native_surface |-> surface,
     native_context |-> context, weak |-> weak, owner |-> owner]

NoObj == [native_display |-> NO_DISPLAY, native_surface |-> NO_SURFACE,
          native_context |-> NO_CONTEXT, weak |-> TRUE, owner |-> 0]

NativeGLContextHandle(context, display) == <<context, display>>

None == <<>>
Some(x) == <<x>>
IsSome(o) == o # <<>>

(* fn current_handle(egl) *)
current_handle(E, t) ==
    LET c == egl_GetCurrentContext(E, t)
        d == egl_GetCurrentDisplay(E, t)
    IN  [val |-> IF c.ret # NO_CONTEXT /\ d.ret # NO_DISPLAY
                 THEN Some(NativeGLContextHandle(c.ret, d.ret))
                 ELSE None,
         calls |-> <<c.call, d.call>>]

(* new with the version test of the retry left out. *)
new_retriesAnyVersion(E, t, share_context, display, surface, client_version, accept1, accept2) ==
    LET shared == IF IsSome(share_context) THEN share_context[1] ELSE NO_CONTEXT
        c1 == egl_CreateContext(E, display, shared, client_version, accept1)
        retry == IsSome(share_context) /\ c1.ret = NO_CONTEXT
        c2 == egl_CreateContext(c1.egl, display, shared, RETRY_CLIENT_VERSION, accept2)
        ctx == IF retry THEN c2.ret ELSE c1.ret
        E2 == IF retry THEN c2.egl ELSE c1.egl
        created == IF retry THEN <<c1.call, c2.call>> ELSE <<c1.call>>
        d == egl_DestroySurface(E2, display, surface)
    IN  IF ctx = NO_CONTEXT
        THEN [egl |-> d.egl, res |-> "Err", obj |-> NoObj,
              calls |-> Append(created, d.call)]
        ELSE [egl |-> E2, res |-> "Ok",
              obj |-> NativeGLContext(display, surface, ctx, FALSE, t),
              calls |-> created]

(* new that returns the error without destroying the surface. *)
new_leaksSurface(E, t, share_context, display, surface, client_version, accept1, accept2) ==
    LET shared == IF IsSome(share_context) THEN share_context[1] ELSE NO_CONTEXT
        c1 == egl_CreateContext(E, display, shared, client_version, accept1)
        retry == /\ IsSome(share_context)
                 /\ c1.ret = NO_CONTEXT
                 /\ client_version # RETRY_CLIENT_VERSION
        c2 == egl_CreateContext(c1.egl, display, shared, RETRY_CLIENT_VERSION, accept2)
        ctx == IF retry THEN c2.ret ELSE c1.ret
        E2 == IF retry THEN c2.egl ELSE c1.egl
        created == IF retry THEN <<c1.call, c2.call>> ELSE <<c1.call>>
    IN  IF ctx = NO_CONTEXT
        THEN [egl |-> E2, res |-> "Err", obj |-> NoObj, calls |-> created]
        ELSE [egl |-> E2, res |-> "Ok",
              obj |-> NativeGLContext(display, surface, ctx, FALSE, t),
              calls |-> created]

(* NativeGLContext::new.  surface is the surface the caller made for it;   *)
(* accept1 and accept2 are the driver's answers to the first and to the    *)
(* second CreateContext, should they be made.                              *)
new(E, t, share_context, display, surface, client_version, accept1, accept2) ==
    LET shared == IF IsSome(share_context) THEN share_context[1] ELSE NO_CONTEXT
        c1 == egl_CreateContext(E, display, shared, client_version, accept1)
        retry == /\ IsSome(share_context)
                 /\ c1.ret = NO_CONTEXT
                 /\ client_version # RETRY_CLIENT_VERSION
        c2 == egl_CreateContext(c1.egl, display, shared, RETRY_CLIENT_VERSION, accept2)
        ctx == IF retry THEN c2.ret ELSE c1.ret
        E2 == IF retry THEN c2.egl ELSE c1.egl
        created == IF retry THEN <<c1.call, c2.call>> ELSE <<c1.call>>
        d == egl_DestroySurface(E2, display, surface)
    IN  IF ctx = NO_CONTEXT
        THEN [egl |-> d.egl, res |-> "Err", obj |-> NoObj,
              calls |-> Append(created, d.call)]
        ELSE [egl |-> E2, res |-> "Ok",
              obj |-> NativeGLContext(display, surface, ctx, FALSE, t),
              calls |-> created]

(* current that reads the handle's fields in the other order. *)
current_swapsHandle(E, t) ==
    LET h == current_handle(E, t)
        s == egl_GetCurrentSurface(E, t)
    IN  IF IsSome(h.val)
        THEN [res |-> "Some",
              obj |-> NativeGLContext(h.val[1][1], s.ret, h.val[1][2], TRUE, t),
              calls |-> Append(h.calls, s.call)]
        ELSE [res |-> "None", obj |-> NoObj, calls |-> h.calls]

(* current that returns an owning context. *)
current_owning(E, t) ==
    LET h == current_handle(E, t)
        s == egl_GetCurrentSurface(E, t)
    IN  IF IsSome(h.val)
        THEN [res |-> "Some",
              obj |-> NativeGLContext(h.val[1][2], s.ret, h.val[1][1], FALSE, t),
              calls |-> Append(h.calls, s.call)]
        ELSE [res |-> "None", obj |-> NoObj, calls |-> h.calls]

(* NativeGLContextMethods::current *)
current(E, t) ==
    LET h == current_handle(E, t)
        s == egl_GetCurrentSurface(E, t)
    IN  IF IsSome(h.val)
        THEN [res |-> "Some",
              obj |-> NativeGLContext(h.val[1][2], s.ret, h.val[1][1], TRUE, t),
              calls |-> Append(h.calls, s.call)]
        ELSE [res |-> "None", obj |-> NoObj, calls |-> h.calls]

(* NativeGLContextMethods::is_current *)
is_current(E, t, self) ==
    LET c == egl_GetCurrentContext(E, t)
    IN  [ret |-> c.ret = self.native_context, calls |-> <<c.call>>]

(* make_current without the is_current test. *)
make_current_always(E, t, self, accept) ==
    LET cur == is_current(E, t, self)
        m == egl_MakeCurrent(E, t, self.native_display, self.native_surface,
                             self.native_surface, self.native_context, accept)
    IN  [egl |-> m.egl,
         res |-> IF m.ret = EGL_FALSE THEN "Err" ELSE "Ok",
         calls |-> Append(cur.calls, m.call)]

(* make_current that returns Ok whatever MakeCurrent returned. *)
make_current_ignoresFailure(E, t, self, accept) ==
    LET cur == is_current(E, t, self)
        m == egl_MakeCurrent(E, t, self.native_display, self.native_surface,
                             self.native_surface, self.native_context, accept)
    IN  IF ~cur.ret
        THEN [egl |-> m.egl, res |-> "Ok", calls |-> Append(cur.calls, m.call)]
        ELSE [egl |-> E, res |-> "Ok", calls |-> cur.calls]

(* NativeGLContextMethods::make_current *)
make_current(E, t, self, accept) ==
    LET cur == is_current(E, t, self)
        m == egl_MakeCurrent(E, t, self.native_display, self.native_surface,
                             self.native_surface, self.native_context, accept)
    IN  IF ~cur.ret
        THEN [egl |-> m.egl,
              res |-> IF m.ret = EGL_FALSE THEN "Err" ELSE "Ok",
              calls |-> Append(cur.calls, m.call)]
        ELSE [egl |-> E, res |-> "Ok", calls |-> cur.calls]

(* NativeGLContextMethods::handle *)
handle(self) == NativeGLContextHandle(self.native_context, self.native_display)

(* unbind without the is_current test. *)
unbind_unconditional(E, t, self, accept) ==
    LET cur == is_current(E, t, self)
        m == egl_MakeCurrent(E, t, self.native_display, NO_SURFACE,
                             NO_SURFACE, NO_CONTEXT, accept)
    IN  [egl |-> m.egl,
         res |-> IF m.ret = EGL_FALSE THEN "Err" ELSE "Ok",
         calls |-> Append(cur.calls, m.call)]

(* unbind with the is_current test inverted. *)
unbind_whenNotCurrent(E, t, self, accept) ==
    LET cur == is_current(E, t, self)
        m == egl_MakeCurrent(E, t, self.native_display, NO_SURFACE,
                             NO_SURFACE, NO_CONTEXT, accept)
    IN  IF ~cur.ret
        THEN [egl |-> m.egl,
              res |-> IF m.ret = EGL_FALSE THEN "Err" ELSE "Ok",
              calls |-> Append(cur.calls, m.call)]
        ELSE [egl |-> E, res |-> "Ok", calls |-> cur.calls]

(* NativeGLContextMethods::unbind *)
unbind(E, t, self, accept) ==
    LET cur == is_current(E, t, self)
        m == egl_MakeCurrent(E, t, self.native_display, NO_SURFACE,
                             NO_SURFACE, NO_CONTEXT, accept)
    IN  IF cur.ret
        THEN [egl |-> m.egl,
              res |-> IF m.ret = EGL_FALSE THEN "Err" ELSE "Ok",
              calls |-> Append(cur.calls, m.call)]
        ELSE [egl |-> E, res |-> "Ok", calls |-> cur.calls]

(* drop that returns early when unbind failed. *)
drop_abortsOnUnbindError(E, t, self, accept) ==
    LET u == unbind(E, t, self, accept)
        ds == egl_DestroySurface(u.egl, self.native_display, self.native_surface)
        dc == egl_DestroyContext(ds.egl, self.native_display, self.native_context)
    IN  IF ~self.weak /\ u.res = "Ok"
        THEN [egl |-> dc.egl, res |-> u.res,
              calls |-> u.calls \o <<ds.call, dc.call>>]
        ELSE [egl |-> u.egl, res |-> u.res, calls |-> u.calls]

(* drop without the weak test. *)
drop_destroysWeak(E, t, self, accept) ==
    LET u == unbind(E, t, self, accept)
        ds == egl_DestroySurface(u.egl, self.native_display, self.native_surface)
        dc == egl_DestroyContext(ds.egl, self.native_display, self.native_context)
    IN  [egl |-> dc.egl, res |-> u.res,
         calls |-> u.calls \o <<ds.call, dc.call>>]

(* Drop for NativeGLContext.  res is the result of the unbind attempt,     *)
(* which drop discards.                                                    *)
drop(E, t, self, accept) ==
    LET u == unbind(E, t, self, accept)
        ds == egl_DestroySurface(u.egl, self.native_display, self.native_surface)
        dc == egl_DestroyContext(ds.egl, self.native_display, self.native_context)
    IN  IF ~self.weak
        THEN [egl |-> dc.egl, res |-> u.res,
              calls |-> u.calls \o <<ds.call, dc.call>>]
        ELSE [egl |-> u.egl, res |-> u.res, calls |-> u.calls]

----------------------------------------------------------------------------
(* The NativeGLContext state machine.  A NativeGLContext holds raw         *)
(* pointers, so it is neither Send nor Sync: every call on it, its drop    *)
(* included, is made by the thread that made it.                           *)

Live(o) == objs[o].owner # 0
MayUse(t, o) == objs[o].owner = t
FreeSlots == {o \in ObjIds : ~Live(o)}
FreeSlot == CHOOSE o \in FreeSlots : \A p \in FreeSlots : o <= p

Last(op, t, o, self, arg, res, val, calls) ==
    [op |-> op, t |-> t, obj |-> o, self |-> self, arg |-> arg,
     res |-> res, val |-> val, calls |-> calls]

InitEgl ==
    /\ egl = [current |-> [t \in Threads |-> NoSlot],
              nctx |-> 0, nsurf |-> 0,
              surfDestroys |-> [s \in 1..MaxNew |-> 0],
              ctxDestroys |-> [c \in 1..MaxNew |-> 0]]
    /\ objs = [o \in ObjIds |-> NoObj]
    /\ last = Last("init", 0, 0, NoObj, <<>>, "Ok", None, <<>>)

(* The caller (create_pixel_buffer_backed_offscreen_context) makes a fresh *)
(* surface and hands it to new.                                            *)
New(t) ==
    /\ egl.nsurf < MaxNew
    /\ FreeSlots # {}
    /\ \E share_context \in {None} \cup {Some(c) : c \in 0..egl.nctx},
          display \in Displays, client_version \in ClientVersions,
          accept1 \in BOOLEAN, accept2 \in BOOLEAN :
         LET surface == egl.nsurf + 1
             r == new([egl EXCEPT !.nsurf = surface], t, share_context, display,
                      surface, client_version, accept1, accept2)
             o == IF r.res = "Ok" THEN FreeSlot ELSE 0
         IN  /\ egl' = r.egl
             /\ objs' = IF r.res = "Ok" THEN [objs EXCEPT ![o] = r.obj] ELSE objs
             /\ last' = Last("new", t, o, r.obj,
                             <<IF IsSome(share_context) THEN 1 ELSE 0,
                               client_version, surface>>,
                             r.res, None, r.calls)
    /\ UNCHANGED otherThanEgl

Current(t) ==
    /\ FreeSlots # {}
    /\ LET r == current(egl, t)
           o == IF r.res = "Some" THEN FreeSlot ELSE 0
       IN  /\ objs' = IF r.res = "Some" THEN [objs EXCEPT ![o] = r.obj] ELSE objs
           /\ last' = Last("current", t, o, r.obj, <<>>, r.res, None, r.calls)
    /\ UNCHANGED <<egl, otherThanEgl>>

MakeCurrent(t, o) ==
    /\ MayUse(t, o)
    /\ \E accept \in BOOLEAN :
         LET r == make_current(egl, t, objs[o], accept)
         IN  /\ egl' = r.egl
             /\ last' = Last("make_current", t, o, objs[o], <<>>, r.res, None, r.calls)
    /\ UNCHANGED <<objs, otherThanEgl>>

Unbind(t, o) ==
    /\ MayUse(t, o)
    /\ \E accept \in BOOLEAN :
         LET r == unbind(egl, t, objs[o], accept)
         IN  /\ egl' = r.egl
             /\ last' = Last("unbind", t, o, objs[o], <<>>, r.res, None, r.calls)
    /\ UNCHANGED <<objs, otherThanEgl>>

Drop(t, o) ==
    /\ MayUse(t, o)
    /\ \E accept \in BOOLEAN :
         LET r == drop(egl, t, objs[o], accept)
         IN  /\ egl' = r.egl
             /\ objs' = [objs EXCEPT ![o] = NoObj]
             /\ last' = Last("drop", t, o, objs[o], <<>>, r.res, None, r.calls)
    /\ UNCHANGED otherThanEgl

----------------------------------------------------------------------------
(* The universal dispatcher.  Device, Context, ContextDescriptor and        *)
(* Surface are enums over Hardware and Software; a value's tag is that of  *)
(* the device that made it.  Both kinds of device exist, so any pairing of *)
(* tags can be passed to an operation.                                     *)

Tags == {"Hardware", "Software"}
UCtxIds == 1..MaxUCtx
USurfIds == 1..MaxUSurf

NoUContext == [tag |-> "none", state |-> "none", surface |-> 0]
NoUSurface == [tag |-> "none", owner |-> "none"]

BackendCall(tag, fn) == [backend |-> tag, fn |-> fn]

(* The backends (platform::default and platform::generic::osmesa), by what *)
(* the design says of them: a call may fail; a destroyed context accepts   *)
(* nothing; a context holds at most one surface, bind stores it and unbind *)
(* gives it back.                                                          *)
backend_create_context(tag, ok) ==
    [res |-> IF ok THEN "Ok" ELSE "ContextCreationFailed",
     context |-> IF ok THEN [tag |-> tag, state |-> "live", surface |-> 0]
                 ELSE NoUContext,
     backend |-> <<BackendCall(tag, "create_context")>>]

backend_destroy_context(tag, context, ok) ==
    LET done == ok /\ context.state = "live"
    IN  [res |-> IF done THEN "Ok" ELSE "BackendError",
         context |-> IF done THEN [context EXCEPT !.state = "destroyed",
                                                  !.surface = 0]
                     ELSE context,
         backend |-> <<BackendCall(tag, "destroy_context")>>]

backend_make_context_current(tag, context, ok) ==
    [res |-> IF ok /\ context.state = "live" THEN "Ok" ELSE "MakeCurrentFailed",
     backend |-> <<BackendCall(tag, "make_context_current")>>]

backend_make_no_context_current(tag, ok) ==
    [res |-> IF ok THEN "Ok" ELSE "MakeCurrentFailed",
     backend |-> <<BackendCall(tag, "make_no_context_current")>>]

backend_bind_surface_to_context(tag, context, s, ok) ==
    LET done == ok /\ context.state = "live" /\ context.surface = 0
    IN  [res |-> IF done THEN "Ok" ELSE "BackendError",
         context |-> IF done THEN [context EXCEPT !.surface = s] ELSE context,
         backend |-> <<BackendCall(tag, "bind_surface_to_context")>>]

backend_unbind_surface_from_context(tag, context, ok) ==
    LET done == ok /\ context.state = "live"
    IN  [res |-> IF done THEN "Ok" ELSE "BackendError",
         val |-> IF done /\ context.surface # 0 THEN Some(context.surface) ELSE None,
         context |-> IF done THEN [context EXCEPT !.surface = 0] ELSE context,
         backend |-> <<BackendCall(tag, "unbind_surface_from_context")>>]

backend_context_surface(tag, context, ok) ==
    LET done == ok /\ context.state = "live"
    IN  [res |-> IF done THEN "Ok" ELSE "BackendError",
         val |-> IF done /\ context.surface # 0 THEN Some(context.surface) ELSE None,
         backend |-> <<BackendCall(tag, "context_surface")>>]

(* create_context that looks at the device's tag alone. *)
create_context_anyDescriptor(device, descriptor, ok) ==
    IF device = "Hardware"
    THEN backend_create_context("Hardware", ok)
    ELSE backend_create_context("Software", ok)

(* Device::create_context *)
create_context(device, descriptor, ok) ==
    IF device = "Hardware" /\ descriptor = "Hardware"
    THEN backend_create_context("Hardware", ok)
    ELSE IF device = "Software" /\ descriptor = "Software"
    THEN backend_create_context("Software", ok)
    ELSE [res |-> "IncompatibleContextDescriptor", context |-> NoUContext,
          backend |-> <<>>]

(* Device::destroy_context *)
destroy_context(device, context, ok) ==
    IF device = "Hardware" /\ context.tag = "Hardware"
    THEN backend_destroy_context("Hardware", context, ok)
    ELSE IF device = "Software" /\ context.tag = "Software"
    THEN backend_destroy_context("Software", context, ok)
    ELSE [res |-> "IncompatibleContext", context |-> context, backend |-> <<>>]

(* Device::make_context_current *)
make_context_current(device, context, ok) ==
    IF device = "Hardware" /\ context.tag = "Hardware"
    THEN backend_make_context_current("Hardware", context, ok)
    ELSE IF device = "Software" /\ context.tag = "Software"
    THEN backend_make_context_current("Software", context, ok)
    ELSE [res |-> "IncompatibleContext", backend |-> <<>>]

(* Device::make_no_context_current *)
make_no_context_current(device, ok) ==
    IF device = "Hardware"
    THEN backend_make_no_context_current("Hardware", ok)
    ELSE backend_make_no_context_current("Software", ok)

(* bind_surface_to_context without the inner match on the surface. *)
bind_surface_to_context_anySurface(device, context, s, surfaceTag, ok) ==
    IF device = "Hardware" /\ context.tag = "Hardware"
    THEN backend_bind_surface_to_context("Hardware", context, s, ok)
    ELSE IF device = "Software" /\ context.tag = "Software"
    THEN backend_bind_surface_to_context("Software", context, s, ok)
    ELSE [res |-> "IncompatibleContext", context |-> context, backend |-> <<>>]

(* Device::bind_surface_to_context.  surface is the Surface value, moved   *)
(* into the call: s is its identity, surfaceTag its tag.                   *)
bind_surface_to_context(device, context, s, surfaceTag, ok) ==
    IF device = "Hardware" /\ context.tag = "Hardware"
    THEN IF surfaceTag = "Hardware"
         THEN backend_bind_surface_to_context("Hardware", context, s, ok)
         ELSE [res |-> "IncompatibleSurface", context |-> context, backend |-> <<>>]
    ELSE IF device = "Software" /\ context.tag = "Software"
    THEN IF surfaceTag = "Software"
         THEN backend_bind_surface_to_context("Software", context, s, ok)
         ELSE [res |-> "IncompatibleSurface", context |-> context, backend |-> <<>>]
    ELSE [res |-> "IncompatibleContext", context |-> context, backend |-> <<>>]

(* unbind_surface_from_context that wraps the surface with the other tag. *)
unbind_surface_from_context_otherTag(device, context, ok) ==
    IF device = "Hardware" /\ context.tag = "Hardware"
    THEN LET r == backend_unbind_surface_from_context("Hardware", context, ok)
         IN  [r EXCEPT !.val = IF IsSome(@) THEN Some(<<"Software", @[1]>>) ELSE None]
    ELSE IF device = "Software" /\ context.tag = "Software"
    THEN LET r == backend_unbind_surface_from_context("Software", context, ok)
         IN  [r EXCEPT !.val = IF IsSome(@) THEN Some(<<"Hardware", @[1]>>) ELSE None]
    ELSE [res |-> "IncompatibleContext", val |-> None, context |-> context,
          backend |-> <<>>]

(* Device::unbind_surface_from_context.  The surface the backend gives     *)
(* back is wrapped with the tag of the arm that was taken.                 *)
unbind_surface_from_context(device, context, ok) ==
    IF device = "Hardware" /\ context.tag = "Hardware"
    THEN LET r == backend_unbind_surface_from_context("Hardware", context, ok)
         IN  [r EXCEPT !.val = IF IsSome(@) THEN Some(<<"Hardware", @[1]>>) ELSE None]
    ELSE IF device = "Software" /\ context.tag = "Software"
    THEN LET r == backend_unbind_surface_from_context("Software", context, ok)
         IN  [r EXCEPT !.val = IF IsSome(@) THEN Some(<<"Software", @[1]>>) ELSE None]
    ELSE [res |-> "IncompatibleContext", val |-> None, context |-> context,
          backend |-> <<>>]

(* Device::context_surface *)
context_surface(device, context, ok) ==
    IF device = "Hardware" /\ context.tag = "Hardware"
    THEN LET r == backend_context_surface("Hardware", context, ok)
         IN  [r EXCEPT !.val = IF IsSome(@) THEN Some(<<"Hardware", @[1]>>) ELSE None]
    ELSE IF device = "Software" /\ context.tag = "Software"
    THEN LET r == backend_context_surface("Software", context, ok)
         IN  [r EXCEPT !.val = IF IsSome(@) THEN Some(<<"Software", @[1]>>) ELSE None]
    ELSE [res |-> "UnsupportedOnThisPlatform", val |-> None, backend |-> <<>>]

(* The backends' query-only accessors, by what the design says of them:   *)
(* each returns a value of its backend and changes nothing.                *)
backend_query(tag, fn) ==
    [res |-> "Ok", val |-> Some(tag), backend |-> <<BackendCall(tag, fn)>>]

(* panic!("Incompatible context!") *)
Panic == [res |-> "panic", val |-> None, backend |-> <<>>]

(* Device::context_descriptor.  The descriptor returned is wrapped with    *)
(* the tag of the arm that was taken.                                      *)
context_descriptor(device, context) ==
    IF device = "Hardware" /\ context.tag = "Hardware"
    THEN backend_query("Hardware", "context_descriptor")
    ELSE IF device = "Software" /\ context.tag = "Software"
    THEN backend_query("Software", "context_descriptor")
    ELSE Panic

(* Device::context_descriptor_attributes *)
context_descriptor_attributes(device, context_descriptor_tag) ==
    IF device = "Hardware" /\ context_descriptor_tag = "Hardware"
    THEN backend_query("Hardware", "context_descriptor_attributes")
    ELSE IF device = "Software" /\ context_descriptor_tag = "Software"
    THEN backend_query("Software", "context_descriptor_attributes")
    ELSE Panic

(* Device::get_proc_address *)
get_proc_address_of(device, context) ==
    IF device = "Hardware" /\ context.tag = "Hardware"
    THEN backend_query("Hardware", "get_proc_address")
    ELSE IF device = "Software" /\ context.tag = "Software"
    THEN backend_query("Software", "get_proc_address")
    ELSE Panic

(* context_id that delegates on the device's tag alone. *)
context_id_anyContext(device, context) ==
    IF device = "Hardware"
    THEN backend_query("Hardware", "context_id")
    ELSE backend_query("Software", "context_id")

(* Device::context_id *)
context_id(device, context) ==
    IF device = "Hardware" /\ context.tag = "Hardware"
    THEN backend_query("Hardware", "context_id")
    ELSE IF device = "Software" /\ context.tag = "Software"
    THEN backend_query("Software", "context_id")
    ELSE Panic

----------------------------------------------------------------------------
(* The dispatcher state machine *)

ULast(op, device, c, context, s, res, val, backend) ==
    [op |-> op, device |-> device, ctx |-> c, context |-> context, surf |-> s,
     res |-> res, val |-> val, backend |-> backend]

InitUni ==
    /\ ucontexts = [c \in UCtxIds |-> NoUContext]
    /\ usurfaces = [s \in USurfIds |-> NoUSurface]
    /\ ulast = ULast("init", "none", 0, NoUContext, 0, "Ok", None, <<>>)

UExists(c) == ucontexts[c].state # "none"
FreeUCtx == {c \in UCtxIds : ~UExists(c)}
FreeUSurf == {s \in USurfIds : usurfaces[s].owner = "none"}
Least(S) == CHOOSE x \in S : \A y \in S : x <= y

(* Device::create_surface (surface.rs): a surface carries its device's tag *)
(* and belongs to the caller.                                              *)
CreateSurface(device) ==
    /\ FreeUSurf # {}
    /\ LET s == Least(FreeUSurf)
       IN  /\ usurfaces' = [usurfaces EXCEPT ![s] = [tag |-> device, owner |-> "caller"]]
           /\ ulast' = ULast("create_surface", device, 0, NoUContext, s, "Ok", None,
                             <<BackendCall(device, "create_surface")>>)
    /\ UNCHANGED <<ucontexts, otherThanUni>>

CreateContext(device) ==
    /\ FreeUCtx # {}
    /\ \E descriptor \in Tags, ok \in BOOLEAN :
         LET r == create_context(device, descriptor, ok)
             c == IF r.res = "Ok" THEN Least(FreeUCtx) ELSE 0
         IN  /\ ucontexts' = IF r.res = "Ok"
                             THEN [ucontexts EXCEPT ![c] = r.context] ELSE ucontexts
             /\ ulast' = ULast("create_context", device, c, r.context, 0, r.res,
                               Some(descriptor), r.backend)
    /\ UNCHANGED <<usurfaces, otherThanUni>>

(* A surface the context holds when it is destroyed goes with it. *)
DestroyContext(device, c) ==
    /\ UExists(c)
    /\ \E ok \in BOOLEAN :
         LET r == destroy_context(device, ucontexts[c], ok)
             held == ucontexts[c].surface
         IN  /\ ucontexts' = [ucontexts EXCEPT ![c] = r.context]
             /\ usurfaces' = IF r.res = "Ok" /\ held # 0
                             THEN [usurfaces EXCEPT ![held].owner = "dropped"]
                             ELSE usurfaces
             /\ ulast' = ULast("destroy_context", device, c, ucontexts[c], 0, r.res,
                               None, r.backend)
    /\ UNCHANGED otherThanUni

MakeContextCurrent(device, c) ==
    /\ UExists(c)
    /\ \E ok \in BOOLEAN :
         LET r == make_context_current(device, ucontexts[c], ok)
         IN  ulast' = ULast("make_context_current", device, c, ucontexts[c], 0,
                            r.res, None, r.backend)
    /\ UNCHANGED <<ucontexts, usurfaces, otherThanUni>>

MakeNoContextCurrent(device) ==
    /\ \E ok \in BOOLEAN :
         LET r == make_no_context_current(device, ok)
         IN  ulast' = ULast("make_no_context_current", device, 0, NoUContext, 0,
                            r.res, None, r.backend)
    /\ UNCHANGED <<ucontexts, usurfaces, otherThanUni>>

(* The Surface is passed by value: on Ok the context holds it, on any      *)
(* error it was moved into the call and is dropped there.                  *)
BindSurfaceToContext(device, c, s) ==
    /\ UExists(c)
    /\ usurfaces[s].owner = "caller"
    /\ \E ok \in BOOLEAN :
         LET r == bind_surface_to_context(device, ucontexts[c], s, usurfaces[s].tag, ok)
         IN  /\ ucontexts' = [ucontexts EXCEPT ![c] = r.context]
             /\ usurfaces' = [usurfaces EXCEPT ![s].owner =
                                 IF r.res = "Ok" THEN "context" ELSE "dropped"]
             /\ ulast' = ULast("bind_surface_to_context", device, c, ucontexts[c], s,
                               r.res, None, r.backend)
    /\ UNCHANGED otherThanUni

UnbindSurfaceFromContext(device, c) ==
    /\ UExists(c)
    /\ \E ok \in BOOLEAN :
         LET r == unbind_surface_from_context(device, ucontexts[c], ok)
         IN  /\ ucontexts' = [ucontexts EXCEPT ![c] = r.context]
             /\ usurfaces' = IF IsSome(r.val)
                             THEN [usurfaces EXCEPT ![r.val[1][2]].owner = "caller"]
                             ELSE usurfaces
             /\ ulast' = ULast("unbind_surface_from_context", device, c, ucontexts[c],
                               0, r.res, r.val, r.backend)
    /\ UNCHANGED otherThanUni

ContextSurface(device, c) ==
    /\ UExists(c)
    /\ \E ok \in BOOLEAN :
         LET r == context_surface(device, ucontexts[c], ok)
         IN  ulast' = ULast("context_surface", device, c, ucontexts[c], 0,
                            r.res, r.val, r.backend)
    /\ UNCHANGED <<ucontexts, usurfaces, otherThanUni>>

(* The query-only accessors.  A panic unwinds the call; the Device and the *)
(* Context, which the call only borrowed, are as they were.                *)
ContextDescriptor(device, c) ==
    /\ UExists(c)
    /\ LET r == context_descriptor(device, ucontexts[c])
       IN  ulast' = ULast("context_descriptor", device, c, ucontexts[c], 0,
                          r.res, r.val, r.backend)
    /\ UNCHANGED <<ucontexts, usurfaces, otherThanUni>>

ContextDescriptorAttributes(device) ==
    /\ \E context_descriptor_tag \in Tags :
         LET r == context_descriptor_attributes(device, context_descriptor_tag)
         IN  ulast' = ULast("context_descriptor_attributes", device, 0,
                            [NoUContext EXCEPT !.tag = context_descriptor_tag], 0,
                            r.res, r.val, r.backend)
    /\ UNCHANGED <<ucontexts, usurfaces, otherThanUni>>

GetProcAddress(device, c) ==
    /\ UExists(c)
    /\ LET r == get_proc_address_of(device, ucontexts[c])
       IN  ulast' = ULast("get_proc_address", device, c, ucontexts[c], 0,
                          r.res, r.val, r.backend)
    /\ UNCHANGED <<ucontexts, usurfaces, otherThanUni>>

ContextId(device, c) ==
    /\ UExists(c)
    /\ LET r == context_id(device, ucontexts[c])
       IN  ulast' = ULast("context_id", device, c, ucontexts[c], 0,
                          r.res, r.val, r.backend)
    /\ UNCHANGED <<ucontexts, usurfaces, otherThanUni>>

NextUniversal ==
    \E device \in Tags :
        \/ CreateSurface(device)
        \/ CreateContext(device)
        \/ MakeNoContextCurrent(device)
        \/ ContextDescriptorAttributes(device)
        \/ \E c \in UCtxIds :
              \/ ContextDescriptor(device, c)
              \/ GetProcAddress(device, c)
              \/ ContextId(device, c)
              \/ DestroyContext(device, c)
              \/ MakeContextCurrent(device, c)
              \/ UnbindSurfaceFromContext(device, c)
              \/ ContextSurface(device, c)
              \/ \E s \in USurfIds : BindSurfaceToContext(device, c, s)

----------------------------------------------------------------------------
(* The D3D11/ANGLE bridge (surfman/src/platform/windows/angle/device.rs).  *)
(* Direct3D and the EGL of ANGLE are external: what D3D11CreateDevice,     *)
(* eglCreateDeviceANGLE, GetPlatformDisplay and Initialize answer is       *)
(* theirs to decide.                                                       *)

(* HRESULTs D3D11CreateDevice may return: S_OK, S_FALSE, E_FAIL.           *)
Hresults == {0, 1, -2147467259}
SUCCEEDED(hr) == hr >= 0

(* D3D_FEATURE_LEVEL_9_1, _9_3 and _11_0 (0x9100, 0x9300, 0xb000).         *)
D3D_FEATURE_LEVEL_9_3 == 37632
FeatureLevels == {37120, D3D_FEATURE_LEVEL_9_3, 45056}

DriverTypes == {"HARDWARE", "WARP"}
EGL_NO_DEVICE_EXT == 0

Device(native_display, d3d11_device, d3d_driver_type) ==
    [native_display |-> native_display, d3d11_device |-> d3d11_device,
     d3d_driver_type |-> d3d_driver_type]

NoDevice == Device(NO_DISPLAY, 0, "none")

(* from_d3d11_device without the assertion on the display. *)
from_d3d11_device_noDisplayCheck(d3d11_device, d3d_driver_type, ext, egl_device, egl_display, result) ==
    LET c1 == Call("CreateDeviceANGLE", <<d3d11_device>>, egl_device)
        c2 == Call("GetPlatformDisplay", <<egl_device>>, egl_display)
        c3 == Call("Initialize", <<egl_display>>, result)
    IN  IF ~ext
        THEN [res |-> "panic", device |-> NoDevice, calls |-> <<>>]
        ELSE IF egl_device = EGL_NO_DEVICE_EXT
        THEN [res |-> "panic", device |-> NoDevice, calls |-> <<c1>>]
        ELSE IF result = EGL_FALSE
        THEN [res |-> "panic", device |-> NoDevice, calls |-> <<c1, c2, c3>>]
        ELSE [res |-> "Ok",
              device |-> Device(egl_display, d3d11_device, d3d_driver_type),
              calls |-> <<c1, c2, c3>>]

(* Device::from_d3d11_device.  ext: the EGL_ANGLE_device_creation entry    *)
(* point was found; egl_device, egl_display and result are what the three  *)
(* native calls return, should they be made.                               *)
from_d3d11_device(d3d11_device, d3d_driver_type, ext, egl_device, egl_display, result) ==
    LET c1 == Call("CreateDeviceANGLE", <<d3d11_device>>, egl_device)
        c2 == Call("GetPlatformDisplay", <<egl_device>>, egl_display)
        c3 == Call("Initialize", <<egl_display>>, result)
    IN  IF ~ext
        THEN [res |-> "panic", device |-> NoDevice, calls |-> <<>>]
        ELSE IF egl_device = EGL_NO_DEVICE_EXT
        THEN [res |-> "panic", device |-> NoDevice, calls |-> <<c1>>]
        ELSE IF egl_display = NO_DISPLAY
        THEN [res |-> "panic", device |-> NoDevice, calls |-> <<c1, c2>>]
        ELSE IF result = EGL_FALSE
        THEN [res |-> "panic", device |-> NoDevice, calls |-> <<c1, c2, c3>>]
        ELSE [res |-> "Ok",
              device |-> Device(egl_display, d3d11_device, d3d_driver_type),
              calls |-> <<c1, c2, c3>>]

(* Device::new.  hr and d3d11_feature_level are what D3D11CreateDevice     *)
(* gives; d3d11_device is the device it made, when it made one.            *)
(* debug_assert! panics in a build with debug assertions and is nothing in *)
(* a build without.                                                        *)
Device_new(debug_assertions, d3d_driver_type, hr, d3d11_feature_level, d3d11_device, ext, egl_device, egl_display, result) ==
    LET c0 == Call("D3D11CreateDevice", <<d3d_driver_type>>, hr)
        f == from_d3d11_device(d3d11_device, d3d_driver_type, ext,
                               egl_device, egl_display, result)
    IN  IF ~SUCCEEDED(hr)
        THEN [res |-> "DeviceOpenFailed", device |-> NoDevice, calls |-> <<c0>>]
        ELSE IF debug_assertions /\ ~(d3d11_feature_level >= D3D_FEATURE_LEVEL_9_3)
        THEN [res |-> "panic", device |-> NoDevice, calls |-> <<c0>>]
        ELSE [res |-> f.res, device |-> f.device, calls |-> <<c0>> \o f.calls]

ALast(op, d3d_driver_type, d3d11_device, hr, level, ext, res, device, calls) ==
    [op |-> op, d3d_driver_type |-> d3d_driver_type,
     d3d11_device |-> d3d11_device, hr |-> hr, feature_level |-> level,
     ext |-> ext, res |-> res, device |-> device, calls |-> calls]

AngleOf(debug_assertions) ==
    [debug_assertions |-> debug_assertions, nd3d |-> 0, devices |-> {}]

(* The crate is built with debug assertions or without. *)
InitAngle ==
    /\ \E debug_assertions \in BOOLEAN : angle = AngleOf(debug_assertions)
    /\ alast = ALast("init", "none", 0, 0, 0, FALSE, "Ok", NoDevice, <<>>)

(* Device::new(connection, adapter) *)
DeviceNew(d3d_driver_type) ==
    /\ angle.nd3d < MaxD3D
    /\ \E hr \in Hresults, level \in FeatureLevels, ext \in BOOLEAN,
          made \in BOOLEAN, egl_display \in {NO_DISPLAY} \cup Displays,
          result \in {EGL_FALSE, 1} :
         LET d3d11_device == angle.nd3d + 1
             egl_device == IF made THEN d3d11_device ELSE EGL_NO_DEVICE_EXT
             r == Device_new(angle.debug_assertions, d3d_driver_type, hr, level,
                             d3d11_device, ext, egl_device, egl_display, result)
         IN  /\ angle' = [angle EXCEPT
                    !.nd3d = IF SUCCEEDED(hr) THEN d3d11_device ELSE @,
                    !.devices = IF r.res = "Ok" THEN @ \cup {r.device} ELSE @]
             /\ alast' = ALast("new", d3d_driver_type,
                               IF SUCCEEDED(hr) THEN d3d11_device ELSE 0,
                               hr, level, ext, r.res, r.device, r.calls)
    /\ UNCHANGED otherThanAngle

(* Device::from_d3d11_device, on a D3D11 device the embedder made itself   *)
(* or took from a Device (Device::d3d11_device).                           *)
FromD3D11Device(d3d_driver_type) ==
    \E d3d11_device \in 1..MaxD3D, ext \in BOOLEAN, made \in BOOLEAN,
       egl_display \in {NO_DISPLAY} \cup Displays, result \in {EGL_FALSE, 1} :
      /\ d3d11_device <= angle.nd3d + 1
      /\ LET egl_device == IF made THEN d3d11_device ELSE EGL_NO_DEVICE_EXT
             r == from_d3d11_device(d3d11_device, d3d_driver_type, ext,
                                    egl_device, egl_display, result)
         IN  /\ angle' = [angle EXCEPT
                    !.nd3d = IF d3d11_device > @ THEN d3d11_device ELSE @,
                    !.devices = IF r.res = "Ok" THEN @ \cup {r.device} ELSE @]
             /\ alast' = ALast("from_d3d11_device", d3d_driver_type, d3d11_device,
                               0, 0, ext, r.res, r.device, r.calls)
      /\ UNCHANGED otherThanAngle

NextAngle ==
    \E d3d_driver_type \in DriverTypes :
        \/ DeviceNew(d3d_driver_type)
        \/ FromD3D11Device(d3d_driver_type)

----------------------------------------------------------------------------
(* GL_LIB and get_proc_address (native_gl_context.rs).  lazy_static! keeps *)
(* the value behind a std::sync::Once: the first thread to dereference it  *)
(* runs the initialiser, a thread that arrives meanwhile waits for it, and *)
(* a thread that arrives after reads the stored value.  Whether a library  *)
(* loads and whether it has a symbol is the system's to decide.            *)

names(target_os) ==
    IF target_os = "windows"
    THEN <<"libEGL.dll">>
    ELSE <<"libGLESv2.so", "libGL.so", "libGLESv3.so">>

Range(f) == {f[i] : i \in DOMAIN f}

(* The initialiser of GL_LIB: the first of the names that loads.  loads is *)
(* the Library::new calls made, in order.                                  *)
RECURSIVE GL_LIB_from(_, _, _)
GL_LIB_from(ns, i, loadable) ==
    IF i > Len(ns)
    THEN [value |-> None, loads |-> ns]
    ELSE IF ns[i] \in loadable
    THEN [value |-> Some(ns[i]), loads |-> SubSeq(ns, 1, i)]
    ELSE GL_LIB_from(ns, i + 1, loadable)

GL_LIB(target_os, loadable) == GL_LIB_from(names(target_os), 1, loadable)

(* A Once that runs the initialiser again when the stored value is None. *)
call_once_retriesNone(L) ==
    IF L.once = "incomplete" \/ (L.once = "complete" /\ L.value = None)
    THEN "run"
    ELSE IF L.once = "running" THEN "wait" ELSE "done"

(* Once::call_once, as the dereference of GL_LIB meets it. *)
call_once(L) ==
    IF L.once = "incomplete" THEN "run"
    ELSE IF L.once = "running" THEN "wait" ELSE "done"

(* fn get_proc_address, past the dereference of GL_LIB.  found: the        *)
(* library has the symbol.                                                 *)
get_proc_address(L, found) ==
    IF IsSome(L.value) /\ found THEN "symbol" ELSE "null"

LibOf(target_os) ==
    [target_os |-> target_os, once |-> "incomplete", value |-> None,
     loads |-> <<>>, inits |-> 0,
     pc |-> [t \in Threads |-> "idle"],
     ret |-> [t \in Threads |-> "none"]]

InitLib == \E target_os \in {"windows", "linux"} : lib = LibOf(target_os)

InitNoLib == lib = LibOf("linux")

(* A thread calls get_proc_address and reaches *GL_LIB. *)
GetProcAddressCall(t) ==
    /\ lib.pc[t] = "idle"
    /\ LET d == call_once(lib)
       IN  \/ /\ d = "run"
              /\ lib.inits < MaxInits
              /\ lib' = [lib EXCEPT !.once = "running", !.inits = @ + 1,
                                    !.pc[t] = "init"]
           \/ /\ d = "wait"
              /\ lib' = [lib EXCEPT !.pc[t] = "wait"]
           \/ /\ d = "done"
              /\ lib' = [lib EXCEPT !.pc[t] = "lookup"]
    /\ UNCHANGED otherThanLib

(* The thread that won the Once runs the initialiser and stores its value. *)
Initialise(t) ==
    /\ lib.pc[t] = "init"
    /\ \E loadable \in SUBSET Range(names(lib.target_os)) :
         LET r == GL_LIB(lib.target_os, loadable)
         IN  lib' = [lib EXCEPT !.value = r.value, !.loads = @ \o r.loads,
                                !.once = "complete", !.pc[t] = "lookup"]
    /\ UNCHANGED otherThanLib

(* A thread that waited on the Once goes on when it is complete. *)
Wake(t) ==
    /\ lib.pc[t] = "wait"
    /\ lib.once = "complete"
    /\ lib' = [lib EXCEPT !.pc[t] = "lookup"]
    /\ UNCHANGED otherThanLib

(* get_proc_address looks the symbol up, or not, and returns. *)
GetProcAddressReturn(t) ==
    /\ lib.pc[t] = "lookup"
    /\ \E found \in BOOLEAN :
         lib' = [lib EXCEPT !.ret[t] = get_proc_address(lib, found),
                            !.pc[t] = "idle"]
    /\ UNCHANGED otherThanLib

NextLib ==
    \E t \in Threads :
        \/ GetProcAddressCall(t)
        \/ Initialise(t)
        \/ Wake(t)
        \/ GetProcAddressReturn(t)

----------------------------------------------------------------------------
(* Spec and SpecUniversal are the crate built without the ANGLE bridge and *)
(* with nobody asking for a GL symbol: angle, alast and lib stay as they   *)
(* start.                                                                  *)
InitNoAngle ==
    /\ angle = AngleOf(FALSE)
    /\ alast = ALast("init", "none", 0, 0, 0, FALSE, "Ok", NoDevice, <<>>)

Init == InitEgl /\ InitUni /\ InitNoAngle /\ InitNoLib

Next ==
    \E t \in Threads :
        \/ New(t)
        \/ Current(t)
        \/ \E o \in ObjIds :
              \/ MakeCurrent(t, o)
              \/ Unbind(t, o)
              \/ Drop(t, o)

Spec == Init /\ [][Next]_vars

SpecUniversal == Init /\ [][NextUniversal]_vars

InitWithAngle == InitEgl /\ InitUni /\ InitAngle /\ InitNoLib

SpecAngle == InitWithAngle /\ [][NextAngle]_vars

InitWithLib == InitEgl /\ InitUni /\ InitNoAngle /\ InitLib

SpecLib == InitWithLib /\ [][NextLib]_vars

----------------------------------------------------------------------------
(* Reading the trace of the last call *)

CallsTo(calls, fn) == SelectSeq(calls, LAMBDA c : c.fn = fn)
Made(calls, fn) == Len(CallsTo(calls, fn))
HandleNow(E, t) == current_handle(E, t).val

----------------------------------------------------------------------------
(* C1: dropping the weak context that current() has just returned leaves   *)
(* the calling thread's current context as it was: current_handle() gives  *)
(* the same native context and display right after the drop as right       *)
(* before it.                                                              *)
C1_WeakDropKeepsCurrent ==
    [][(/\ last.op = "current" /\ last.res = "Some"
        /\ last'.op = "drop" /\ last'.t = last.t /\ last'.obj = last.obj
        /\ last'.self = last.self)
       => HandleNow(egl', last.t) = HandleNow(egl, last.t)]_vars

(* C5: new retries CreateContext exactly once, with client version 3, when *)
(* a share context was given, the version asked for is not 3 and the first *)
(* attempt returned no context; it never retries otherwise; it makes at    *)
(* most two CreateContext calls, and returns Ok exactly when the last      *)
(* attempt returned a context.                                             *)
C5_RetryOnceWithVersion3 ==
    last.op = "new" =>
        LET cc == CallsTo(last.calls, "CreateContext")
            shared == last.arg[1] = 1
            version == last.arg[2]
            failed1 == cc[1].ret = NO_CONTEXT
        IN  /\ Len(cc) \in {1, 2}
            /\ cc[1].args[3] = version
            /\ (shared /\ version # 3 /\ failed1)
                  => (Len(cc) = 2 /\ cc[2].args[3] = 3
                      /\ cc[2].args[2] = cc[1].args[2])
            /\ (~shared \/ version = 3 \/ ~failed1) => Len(cc) = 1
            /\ (last.res = "Ok") <=> (cc[Len(cc)].ret # NO_CONTEXT)
            /\ last.res = "Ok" => last.self.native_context = cc[Len(cc)].ret

C5_Witness ==
    /\ last.op = "new"
    /\ Made(last.calls, "CreateContext") = 2
    /\ last.res = "Ok"

(* C6: when new returns an error the surface it was given has been         *)
(* destroyed exactly once, by its last native call, and no NativeGLContext *)
(* holds it; when new returns Ok the surface has not been destroyed and    *)
(* the returned context is owning and holds it.                            *)
C6_SurfaceOnFailureOnly ==
    last.op = "new" =>
        LET surface == last.arg[3]
            n == Len(last.calls)
        IN  /\ last.res = "Err" =>
                /\ egl.surfDestroys[surface] = 1
                /\ Made(last.calls, "DestroySurface") = 1
                /\ last.calls[n].fn = "DestroySurface"
                /\ last.calls[n].args[2] = surface
                /\ \A o \in ObjIds : Live(o) => objs[o].native_surface # surface
            /\ last.res = "Ok" =>
                /\ egl.surfDestroys[surface] = 0
                /\ Made(last.calls, "DestroySurface") = 0
                /\ Live(last.obj)
                /\ objs[last.obj] = last.self
                /\ objs[last.obj].native_surface = surface
                /\ objs[last.obj].weak = FALSE

C6_Witness ==
    /\ last.op = "new"
    /\ last.res = "Err"
    /\ Made(last.calls, "CreateContext") = 2
    /\ egl.surfDestroys[last.arg[3]] = 1

(* C7: when make_current on an owning context returns Ok, is_current on    *)
(* the same thread right afterwards is true.                               *)
C7_MakeCurrentThenIsCurrent ==
    (last.op = "make_current" /\ last.res = "Ok" /\ ~last.self.weak)
        => is_current(egl, last.t, last.self).ret

C7_Witness ==
    /\ last.op = "make_current"
    /\ last.res = "Ok"
    /\ ~last.self.weak
    /\ Made(last.calls, "MakeCurrent") = 1

(* C8: unbind on a context that is not current on the calling thread       *)
(* returns Ok, makes no native MakeCurrent call and leaves every thread's  *)
(* current-context slot as it was.                                         *)
C8_UnbindNotCurrentIsNoOp ==
    [][(last'.op = "unbind" /\ ~is_current(egl, last'.t, last'.self).ret)
       => /\ last'.res = "Ok"
          /\ Made(last'.calls, "MakeCurrent") = 0
          /\ egl'.current = egl.current]_vars

C8_Witness ==
    /\ last.op = "unbind"
    /\ last.res = "Ok"
    /\ Made(last.calls, "MakeCurrent") = 0
    /\ egl.current[last.t].context # NO_CONTEXT
    /\ egl.current[last.t].context # last.self.native_context

(* C9: a context that new has just returned is current on no thread, and   *)
(* an owning context that is not current becomes current only by a         *)
(* make_current call on that native context; after make_current returns Ok *)
(* the context is current; and when unbind on a current context returns    *)
(* Ok the context is no longer current and the thread's slot is empty.     *)
C9_FreshThenCurrentThenUnbound ==
    /\ [](last.op = "new" /\ last.res = "Ok"
            => /\ \A t \in Threads : ~is_current(egl, t, last.self).ret
               /\ \A o \in ObjIds : (Live(o) /\ o # last.obj)
                     => objs[o].native_context # last.self.native_context)
    /\ [](last.op = "make_current" /\ last.res = "Ok"
            => is_current(egl, last.t, last.self).ret)
    /\ [][\A t \in Threads, o \in ObjIds :
            (/\ Live(o) /\ ~objs[o].weak
             /\ ~is_current(egl, t, objs[o]).ret
             /\ is_current(egl', t, objs[o]).ret)
            => /\ last'.op = "make_current"
               /\ last'.t = t
               /\ last'.self.native_context = objs[o].native_context]_vars
    /\ [][(/\ last'.op = "unbind" /\ last'.res = "Ok"
           /\ is_current(egl, last'.t, last'.self).ret)
          => /\ ~is_current(egl', last'.t, last'.self).ret
             /\ HandleNow(egl', last'.t) = None
             /\ egl'.current[last'.t] = NoSlot]_vars

C9_Witness ==
    /\ last.op = "unbind"
    /\ last.res = "Ok"
    /\ ~last.self.weak
    /\ Made(last.calls, "MakeCurrent") = 1
    /\ egl.current[last.t] = NoSlot

(* C10: the drop of a weak context makes no DestroySurface and no          *)
(* DestroyContext call; the drop of an owning context makes, after its     *)
(* unbind attempt, exactly one DestroySurface call on its surface and then *)
(* exactly one DestroyContext call on its context.                         *)
C10_OnlyOwnerDestroys ==
    last.op = "drop" =>
        LET n == Len(last.calls)
        IN  /\ last.calls[1].fn = "GetCurrentContext"
            /\ last.self.weak =>
                  /\ Made(last.calls, "DestroySurface") = 0
                  /\ Made(last.calls, "DestroyContext") = 0
            /\ ~last.self.weak =>
                  /\ Made(last.calls, "DestroySurface") = 1
                  /\ Made(last.calls, "DestroyContext") = 1
                  /\ n >= 3
                  /\ last.calls[n - 1].fn = "DestroySurface"
                  /\ last.calls[n - 1].args =
                        <<last.self.native_display, last.self.native_surface>>
                  /\ last.calls[n].fn = "DestroyContext"
                  /\ last.calls[n].args =
                        <<last.self.native_display, last.self.native_context>>
                  /\ egl.surfDestroys[last.self.native_surface] >= 1
                  /\ egl.ctxDestroys[last.self.native_context] >= 1

C10_Witness ==
    /\ last.op = "drop"
    /\ ~last.self.weak
    /\ Made(last.calls, "MakeCurrent") = 1
    /\ Made(last.calls, "DestroyContext") = 1

C10_WitnessWeak ==
    /\ last.op = "drop"
    /\ last.self.weak
    /\ Made(last.calls, "MakeCurrent") = 1

----------------------------------------------------------------------------
(* C2, as claimed: bind_surface_to_context with a surface whose tag        *)
(* differs from the context's tag returns IncompatibleSurface, whatever    *)
(* the device's tag.                                                       *)
C2_SurfaceMismatchIsIncompatibleSurface ==
    (/\ ulast.op = "bind_surface_to_context"
     /\ usurfaces[ulast.surf].tag # ulast.context.tag)
        => ulast.res = "IncompatibleSurface"

(* C2, amended: bind_surface_to_context with a surface whose tag differs   *)
(* from the context's tag never returns Ok and never reaches a backend; it *)
(* returns IncompatibleSurface when the context's tag is the device's tag  *)
(* and IncompatibleContext when it is not.                                 *)
C2_SurfaceMismatchByDevice ==
    (/\ ulast.op = "bind_surface_to_context"
     /\ usurfaces[ulast.surf].tag # ulast.context.tag)
        => /\ ulast.backend = <<>>
           /\ ucontexts[ulast.ctx] = ulast.context
           /\ ulast.context.tag = ulast.device => ulast.res = "IncompatibleSurface"
           /\ ulast.context.tag # ulast.device => ulast.res = "IncompatibleContext"

C2_Witness ==
    /\ ulast.op = "bind_surface_to_context"
    /\ ulast.device = "Hardware"
    /\ ulast.context.tag = "Hardware"
    /\ usurfaces[ulast.surf].tag = "Software"
    /\ ulast.res = "IncompatibleSurface"

(* C3: destroy_context, make_context_current, bind_surface_to_context,     *)
(* unbind_surface_from_context and context_surface, called with a context  *)
(* whose tag differs from the device's tag, return IncompatibleContext or  *)
(* IncompatibleSurface and call no backend.                                *)
C3_ContextMismatchIsIncompatible ==
    (/\ ulast.op \in {"destroy_context", "make_context_current",
                      "bind_surface_to_context", "unbind_surface_from_context",
                      "context_surface"}
     /\ ulast.context.tag # ulast.device)
        => /\ ulast.res \in {"IncompatibleContext", "IncompatibleSurface"}
           /\ ulast.backend = <<>>

(* C4: create_context returns Ok only when the descriptor's tag is the     *)
(* device's tag, and the context it returns carries that tag; when the     *)
(* tags differ it returns IncompatibleContextDescriptor and calls no       *)
(* backend.                                                                *)
C4_CreateContextKeepsTag ==
    ulast.op = "create_context" =>
        LET descriptor == ulast.val[1]
        IN  /\ ulast.res = "Ok" =>
                /\ descriptor = ulast.device
                /\ ulast.context.tag = ulast.device
                /\ ucontexts[ulast.ctx] = ulast.context
                /\ ulast.backend = <<BackendCall(ulast.device, "create_context")>>
            /\ descriptor # ulast.device =>
                /\ ulast.res = "IncompatibleContextDescriptor"
                /\ ulast.backend = <<>>
                /\ ulast.ctx = 0

C4_Witness ==
    /\ ulast.op = "create_context"
    /\ ulast.res = "Ok"
    /\ ulast.device = "Software"
    /\ ucontexts[ulast.ctx].tag = "Software"

C4_WitnessMismatch ==
    /\ ulast.op = "create_context"
    /\ ulast.res = "IncompatibleContextDescriptor"

(* C11: when bind_surface_to_context returns IncompatibleSurface or        *)
(* IncompatibleContext, the context's bound surface is unchanged and the   *)
(* surface passed in is still the caller's: not bound to a context and not *)
(* dropped.                                                                *)
C11_FailedBindKeepsSurface ==
    (/\ ulast.op = "bind_surface_to_context"
     /\ ulast.res \in {"IncompatibleSurface", "IncompatibleContext"})
        => /\ ucontexts[ulast.ctx] = ulast.context
           /\ \A c \in UCtxIds : ucontexts[c].surface # ulast.surf
           /\ usurfaces[ulast.surf].owner = "caller"

C15_AccessorsPanicOnMismatch ==
    ulast.op \in {"context_descriptor", "context_descriptor_attributes",
                  "get_proc_address", "context_id"}
        => /\ ulast.context.tag # ulast.device
                => (ulast.res = "panic" /\ ulast.backend = <<>>)
           /\ ulast.context.tag = ulast.device
                => /\ ulast.res = "Ok"
                   /\ ulast.backend = <<BackendCall(ulast.device, ulast.op)>>
                   /\ ulast.val = Some(ulast.device)

C15_Witness ==
    /\ ulast.op = "context_id"
    /\ ulast.device = "Hardware"
    /\ ulast.context.tag = "Software"
    /\ ulast.res = "panic"

C15_WitnessMatch ==
    /\ ulast.op = "get_proc_address"
    /\ ulast.context.tag = ulast.device
    /\ ulast.res = "Ok"

(* C16: when the unbind inside the drop of an owning context fails, drop   *)
(* still calls DestroySurface and then DestroyContext on its own surface   *)
(* and context, as its last two native calls, and the context is gone.     *)
C16_DropDestroysAfterFailedUnbind ==
    (last.op = "drop" /\ ~last.self.weak /\ last.res = "Err")
        => LET n == Len(last.calls)
           IN  /\ n >= 2
               /\ last.calls[n - 1].fn = "DestroySurface"
               /\ last.calls[n - 1].args =
                      <<last.self.native_display, last.self.native_surface>>
               /\ last.calls[n].fn = "DestroyContext"
               /\ last.calls[n].args =
                      <<last.self.native_display, last.self.native_context>>
               /\ egl.surfDestroys[last.self.native_surface] >= 1
               /\ egl.ctxDestroys[last.self.native_context] >= 1
               /\ ~Live(last.obj)

C16_Witness ==
    /\ last.op = "drop"
    /\ ~last.self.weak
    /\ last.res = "Err"
    /\ \E i \in 1..Len(last.calls) :
         last.calls[i].fn = "MakeCurrent" /\ last.calls[i].ret = EGL_FALSE
    /\ Made(last.calls, "DestroyContext") = 1

(* C17: make_current on a context that is already current returns Ok and   *)
(* makes no MakeCurrent call; otherwise it makes exactly one MakeCurrent   *)
(* call, with its display, its surface as draw and as read surface, and    *)
(* its context, and returns Ok exactly when that call was accepted; when   *)
(* it was refused the current slot of every thread is as it was.           *)
C17_MakeCurrentCallsOnceUnlessCurrent ==
    [][last'.op = "make_current" =>
         LET self == last'.self
             already == is_current(egl, last'.t, self).ret
             mc == CallsTo(last'.calls, "MakeCurrent")
         IN  /\ already => (last'.res = "Ok" /\ Len(mc) = 0 /\ egl' = egl)
             /\ ~already =>
                  /\ Len(mc) = 1
                  /\ mc[1].args = <<self.native_display, self.native_surface,
                                    self.native_surface, self.native_context>>
                  /\ last'.res = "Ok" <=> mc[1].ret # EGL_FALSE
                  /\ last'.res \in {"Ok", "Err"}
                  /\ last'.res = "Err" => egl'.current = egl.current]_vars

C17_Witness ==
    /\ last.op = "make_current"
    /\ last.res = "Ok"
    /\ Made(last.calls, "MakeCurrent") = 0
    /\ egl.current[last.t].context = last.self.native_context

C17_WitnessRefused ==
    /\ last.op = "make_current"
    /\ last.res = "Err"
    /\ Made(last.calls, "MakeCurrent") = 1

(* C18: while a context is current on the thread that uses it,             *)
(* current_handle() on that thread equals the context's handle() and       *)
(* current() gives a weak context with the same native context, display    *)
(* and surface; on a thread with no current context both give None.        *)
C18_CurrentAgreesWithHandle ==
    \A t \in Threads :
        /\ \A o \in ObjIds :
             (MayUse(t, o) /\ is_current(egl, t, objs[o]).ret)
                => /\ HandleNow(egl, t) = Some(handle(objs[o]))
                   /\ current(egl, t).res = "Some"
                   /\ current(egl, t).obj =
                          NativeGLContext(objs[o].native_display,
                                          objs[o].native_surface,
                                          objs[o].native_context, TRUE, t)
        /\ egl.current[t].context = NO_CONTEXT
                => /\ HandleNow(egl, t) = None
                   /\ current(egl, t).res = "None"

C18_Witness ==
    /\ last.op = "make_current"
    /\ last.res = "Ok"
    /\ Made(last.calls, "MakeCurrent") = 1
    /\ last.self.native_context # last.self.native_display
    /\ egl.current[last.t].context = last.self.native_context
    /\ ~last.self.weak

(* C20: no native surface and no native context is passed to its destroy   *)
(* call more than once, and the drop of a weak context makes no destroy    *)
(* call at all.                                                            *)
C20_DestroyedAtMostOnce ==
    /\ \A s \in 1..MaxNew : egl.surfDestroys[s] <= 1
    /\ \A c \in 1..MaxNew : egl.ctxDestroys[c] <= 1
    /\ (last.op = "drop" /\ last.self.weak)
          => /\ Made(last.calls, "DestroySurface") = 0
             /\ Made(last.calls, "DestroyContext") = 0
    /\ \A o, p \in ObjIds :
          (o # p /\ Live(o) /\ Live(p) /\ ~objs[o].weak /\ ~objs[p].weak)
             => /\ objs[o].native_context # objs[p].native_context
                /\ objs[o].native_surface # objs[p].native_surface

C20_Witness ==
    /\ last.op = "drop"
    /\ last.self.weak
    /\ egl.ctxDestroys[last.self.native_context] = 1
    /\ egl.surfDestroys[last.self.native_surface] = 1

(* C13: Device::new returns DeviceOpenFailed, with from_d3d11_device not   *)
(* run and no Device returned, when D3D11CreateDevice returned a failure   *)
(* code and also when the feature level it returned is below 9_3.          *)
C13_LowFeatureLevelIsDeviceOpenFailed ==
    (/\ alast.op = "new"
     /\ \/ ~SUCCEEDED(alast.hr)
        \/ alast.feature_level < D3D_FEATURE_LEVEL_9_3)
        => /\ alast.res = "DeviceOpenFailed"
           /\ Made(alast.calls, "CreateDeviceANGLE") = 0
           /\ alast.device = NoDevice

(* C19: from_d3d11_device calls CreateDeviceANGLE on the given D3D11       *)
(* device, then GetPlatformDisplay on the device handle that gave, then    *)
(* Initialize on the display that gave, in that order; a missing           *)
(* extension, a null device handle, no display or a false Initialize makes *)
(* it panic with none of the later calls made; it returns a Device exactly *)
(* when all three succeeded, and that Device holds the given D3D11 device, *)
(* the given driver type and the display.                                  *)
C19_ThreeStepsInOrderOrPanic ==
    alast.op = "from_d3d11_device" =>
        LET c == alast.calls
            n == Len(c)
            step == <<"CreateDeviceANGLE", "GetPlatformDisplay", "Initialize">>
        IN  /\ n <= 3
            /\ \A i \in 1..n : c[i].fn = step[i]
            /\ alast.res \in {"Ok", "panic"}
            /\ ~alast.ext => (n = 0 /\ alast.res = "panic")
            /\ n >= 1 => /\ c[1].args = <<alast.d3d11_device>>
                         /\ c[1].ret = EGL_NO_DEVICE_EXT
                                => (n = 1 /\ alast.res = "panic")
            /\ n >= 2 => /\ c[2].args = <<c[1].ret>>
                         /\ c[2].ret = NO_DISPLAY
                                => (n = 2 /\ alast.res = "panic")
            /\ n = 3 => /\ c[3].args = <<c[2].ret>>
                        /\ c[3].ret = EGL_FALSE => alast.res = "panic"
            /\ alast.res = "Ok"
                  <=> /\ alast.ext /\ n = 3
                      /\ c[1].ret # EGL_NO_DEVICE_EXT
                      /\ c[2].ret # NO_DISPLAY
                      /\ c[3].ret # EGL_FALSE
            /\ alast.res = "Ok"
                  => /\ alast.device = Device(c[2].ret, alast.d3d11_device,
                                              alast.d3d_driver_type)
                     /\ alast.device \in angle.devices
            /\ alast.res = "panic" => alast.device = NoDevice
            /\ \A d \in angle.devices : d.native_display # NO_DISPLAY

C19_Witness ==
    /\ alast.op = "from_d3d11_device"
    /\ alast.res = "Ok"
    /\ Len(alast.calls) = 3
    /\ alast.device.d3d11_device = alast.d3d11_device

C19_WitnessPanic ==
    /\ alast.op = "from_d3d11_device"
    /\ alast.res = "panic"
    /\ Len(alast.calls) = 2
    /\ alast.calls[2].ret = NO_DISPLAY

(* C14: the initialiser of GL_LIB is run at most once however many threads *)
(* reach it first at the same time; the Library::new calls made are the    *)
(* names of the platform in order, each at most once; once the value is    *)
(* stored neither it nor the loads made change; and when no library        *)
(* loaded, every get_proc_address call returns null.                       *)
C14_LibInitialisedOnce ==
    /\ [](/\ lib.inits <= 1
          /\ Cardinality({t \in Threads : lib.pc[t] = "init"}) <= 1
          /\ Len(lib.loads) <= Len(names(lib.target_os))
          /\ lib.loads = SubSeq(names(lib.target_os), 1, Len(lib.loads))
          /\ lib.once # "complete"
                => (lib.value = None /\ \A t \in Threads : lib.ret[t] = "none")
          /\ (lib.once = "complete" /\ lib.value = None)
                => \A t \in Threads : lib.ret[t] \in {"none", "null"})
    /\ [][lib.once = "complete"
            => /\ lib'.once = "complete"
               /\ lib'.value = lib.value
               /\ lib'.loads = lib.loads
               /\ lib'.inits = lib.inits]_vars

C14_Witness ==
    /\ lib.once = "complete"
    /\ lib.value = None
    /\ lib.inits = 1
    /\ lib.loads = names(lib.target_os)
    /\ Len(lib.loads) = 3
    /\ \A t \in Threads : lib.ret[t] = "null" /\ lib.pc[t] = "idle"

C14_WitnessConcurrent ==
    \E t, u \in Threads : lib.pc[t] = "init" /\ lib.pc[u] = "wait"

(* C21: no native context and no native surface that has been passed to    *)
(* its destroy call is in the current slot of any thread; in particular,   *)
(* after the drop of an owning context no thread's slot holds that         *)
(* context or its surface, also when the unbind inside drop was refused.   *)
C21_NeverDestroyedWhileCurrent ==
    /\ \A t \in Threads :
          egl.current[t].context # NO_CONTEXT
             => /\ ContextLive(egl, egl.current[t].context)
                /\ SurfaceLive(egl, egl.current[t].draw)
                /\ SurfaceLive(egl, egl.current[t].read)
    /\ (last.op = "drop" /\ ~last.self.weak)
          => \A t \in Threads :
                /\ egl.current[t].context # last.self.native_context
                /\ egl.current[t].draw # last.self.native_surface
                /\ egl.current[t].read # last.self.native_surface

====
